---- MODULE Spec2Model ----
(***************************************************************************)
(* Contacts REST handlers of routes/contacts.js over the key-value store   *)
(* reached through lib/redis.  Every handler is an async function: each    *)
(* `await redis.x(...)` is one atomic store operation, and other requests  *)
(* may run between two awaits of the same handler.  An action below is one *)
(* store call together with the synchronous code that follows it up to the *)
(* next await (or up to the response).  A response leaves the system in    *)
(* the step that sends it: `sent` holds the response of the latest step.   *)
(*                                                                         *)
(* JSON objects are functions from field names to values; a field that is  *)
(* absent is outside the DOMAIN.  Store keys and path parameters are       *)
(* decimal strings, modelled as sequences of digits.                       *)
(***************************************************************************)
EXTENDS Integers, Sequences, FiniteSets

\* ------------------------------------------------------------------ bounds
MaxReq == 2
MaxCreates == 2
RestartAt == 8

Reqs == 1..MaxReq

\* ------------------------------------------------------- strings and keys
RECURSIVE toString(_)
toString(n) ==
  IF n < 10 THEN <<n>> ELSE toString(n \div 10) \o <<n % 10>>

RECURSIVE ParseInt(_)
ParseInt(s) ==
  IF Len(s) = 1 THEN s[1]
  ELSE 10 * ParseInt(SubSeq(s, 1, Len(s) - 1)) + s[Len(s)]

\* s sorts strictly before t in code-unit order
StrLess(s, t) ==
  \/ \E i \in 1..Len(s) :
       /\ i <= Len(t)
       /\ \A j \in 1..(i - 1) : s[j] = t[j]
       /\ s[i] < t[i]
  \/ /\ Len(s) < Len(t)
     /\ \A j \in 1..Len(s) : s[j] = t[j]

\* Array.prototype.sort() without a comparator: elements are compared by
\* their string forms
RECURSIVE DefaultSort(_)
DefaultSort(S) ==
  IF S = {} THEN << >>
  ELSE LET m == CHOOSE x \in S :
                  \A y \in S : ~StrLess(toString(y), toString(x))
       IN <<m>> \o DefaultSort(S \ {m})

\* ------------------------------------------------------------ JSON values
Nil == [null |-> TRUE]
EmptyObj == [f \in {} |-> TRUE]
DataFields == {"first_name", "last_name", "job", "description"}

\* { id, ...contact } in place of the field-by-field copy
NewContactSpread(id, contact) ==
  [f \in {"id"} \cup DOMAIN contact |->
     IF f \in DOMAIN contact THEN contact[f] ELSE id]

\* { id, first_name: contact.first_name, ... }: a field that is undefined
\* is absent from the serialised record
NewContact(id, contact) ==
  [f \in {"id"} \cup (DataFields \cap DOMAIN contact) |->
     IF f = "id" THEN id ELSE contact[f]]

\* {...info, ...contact}: the stored record wins over the patch
SpreadReversed(contact, info) ==
  [f \in DOMAIN contact \cup DOMAIN info |->
     IF f \in DOMAIN contact THEN contact[f] ELSE info[f]]

\* {...contact, ...info}
Spread(contact, info) ==
  [f \in DOMAIN contact \cup DOMAIN info |->
     IF f \in DOMAIN info THEN info[f] ELSE contact[f]]

\* ------------------------------------------------------ store (lib/redis)
GetIds(s) == DOMAIN s
GetContact(s, k) == IF k \in DOMAIN s THEN s[k] ELSE Nil
AddContact(s, id, rec) ==
  [k \in DOMAIN s \cup {toString(id)} |->
     IF k = toString(id) THEN rec ELSE s[k]]
DelContact(s, k) == [j \in DOMAIN s \ {k} |-> s[j]]
GetNextId(n) == n + 1

\* ------------------------------------------------------------------- state
VARIABLES
  store,      \* contact records by key
  nextId,     \* the persisted id counter
  pc,         \* position of each request's handler
  params,     \* req.params.id of a request in flight
  body,       \* req.body.contact / req.body.info of a request in flight
  ids,        \* GET /contacts: the sorted ids
  contact,    \* PATCH: the record read
  newContact, \* POST: the record built
  sent,       \* the response the latest step sent, with the request it
              \*          answers; NoRes when that step sent none
  allocated,  \* history: ids returned by getNextId since start
  fresh,      \* history: the record each create returned, for the keys no
              \*          update has written and no delete has removed since
  removed     \* history: keys whose delete returned the record

vars == <<store, nextId, pc, params, body, ids, contact, newContact, sent,
          allocated, fresh, removed>>

locals == <<params, body, ids, contact, newContact>>
history == <<allocated, fresh, removed>>

\* ------------------------------------------------------------------ inputs
ContactBodies ==
  { [first_name |-> "Anakin", last_name |-> "Skywalker",
     job |-> "Jedi Knight", description |-> "The Chosen one"],
    [id |-> 7, first_name |-> "Boba", job |-> "Bounty Hunter",
     nickname |-> "bf"] }

\* a request takes the lowest slot that is free
Free(r) ==
  /\ pc[r] = "idle"
  /\ \A q \in Reqs : q < r => pc[q] # "idle"

InfoBodies ==
  { EmptyObj,
    [job |-> "Sith Lord"],
    [id |-> 3] }

\* the counter value this run started from
Base == nextId - Len(allocated)

\* path parameters: the ids this run can allocate and one it never does
ParamIds == { toString(Base + n) : n \in 1..(MaxCreates + 1) }

\* -------------------------------------------------------------------- init
NoRes == [op |-> "none"]

InitRequests ==
  /\ pc = [r \in Reqs |-> "idle"]
  /\ params = [r \in Reqs |-> << >>]
  /\ body = [r \in Reqs |-> EmptyObj]
  /\ ids = [r \in Reqs |-> << >>]
  /\ contact = [r \in Reqs |-> Nil]
  /\ newContact = [r \in Reqs |-> Nil]
  /\ sent = NoRes

Init ==
  /\ store = [k \in {} |-> Nil]
  /\ nextId = 0
  /\ InitRequests
  /\ allocated = << >>
  /\ fresh = [k \in {} |-> Nil]
  /\ removed = {}

\* a store that outlived earlier runs: RestartAt contacts were created and
\* deleted again
InitRestart ==
  /\ store = [k \in {} |-> Nil]
  /\ nextId = RestartAt
  /\ InitRequests
  /\ allocated = << >>
  /\ fresh = [k \in {} |-> Nil]
  /\ removed = { toString(n) : n \in 1..RestartAt }

\* ---------------------------------------------------------------- handlers
\* res.status(code).json({ statusCode, message, data }); the handler returns
Send(r, name, k, code, statusCode, msg, data) ==
  /\ sent' = [op |-> name, id |-> k, status |-> code,
              statusCode |-> statusCode, message |-> msg, data |-> data]
  /\ pc' = [pc EXCEPT ![r] = "idle"]
  /\ params' = [params EXCEPT ![r] = << >>]
  /\ body' = [body EXCEPT ![r] = EmptyObj]
  /\ ids' = [ids EXCEPT ![r] = << >>]
  /\ contact' = [contact EXCEPT ![r] = Nil]
  /\ newContact' = [newContact EXCEPT ![r] = Nil]

\* GET /contacts, up to the await of getIds
ListGetIds(r) ==
  /\ Free(r)
  /\ ids' = [ids EXCEPT ![r] =
               DefaultSort({ ParseInt(k) : k \in GetIds(store) })]
  /\ pc' = [pc EXCEPT ![r] = "list_fetch"]
  /\ sent' = NoRes
  /\ UNCHANGED <<store, nextId, params, body, contact, newContact, history>>

\* GET /contacts, the getContact calls of Promise.all and the response
ListFetch(r) ==
  /\ pc[r] = "list_fetch"
  /\ LET contacts == [i \in 1..Len(ids[r]) |->
                        GetContact(store, toString(ids[r][i]))]
     IN Send(r, "list", << >>, 200, 200,
             "Successfully retrieved the contacts list", contacts)
  /\ UNCHANGED <<store, nextId, history>>

\* the not-found branch answers with res.json alone, so with status 200
GetByIdNoStatus(r, k) ==
  /\ Free(r)
  /\ LET c == GetContact(store, k)
     IN IF c = Nil
          THEN Send(r, "get", k, 200, 404, "Contact not found", EmptyObj)
          ELSE Send(r, "get", k, 200, 200, "Contact successfully retrieved", c)
  /\ UNCHANGED <<store, nextId, history>>

\* GET /contacts/:id
GetById(r, k) ==
  /\ Free(r)
  /\ LET c == GetContact(store, k)
     IN IF c = Nil
          THEN Send(r, "get", k, 404, 404, "Contact not found", EmptyObj)
          ELSE Send(r, "get", k, 200, 200, "Contact successfully retrieved", c)
  /\ UNCHANGED <<store, nextId, history>>

\* POST /contacts, up to the await of getNextId
PostGetNextId(r, c) ==
  /\ Free(r)
  /\ Len(allocated) < MaxCreates
  /\ nextId' = GetNextId(nextId)
  /\ newContact' = [newContact EXCEPT ![r] = NewContact(nextId', c)]
  /\ allocated' = Append(allocated, nextId')
  /\ pc' = [pc EXCEPT ![r] = "post_add"]
  /\ body' = [body EXCEPT ![r] = c]
  /\ sent' = NoRes
  /\ UNCHANGED <<store, params, ids, contact, fresh, removed>>

\* addContact under an id derived from the number of stored contacts
PostAddContactByCount(r) ==
  /\ pc[r] = "post_add"
  /\ store' = AddContact(store, Cardinality(DOMAIN store) + 1, newContact[r])
  /\ Send(r, "post", << >>, 201, 201, "Contact successfully added",
          newContact[r])
  /\ fresh' = AddContact(fresh, newContact[r].id, newContact[r])
  /\ UNCHANGED <<nextId, allocated, removed>>

\* addContact(await redis.getNextId(), newContact): a second allocation
PostAddContactRealloc(r) ==
  /\ pc[r] = "post_add"
  /\ nextId' = GetNextId(nextId)
  /\ store' = AddContact(store, newContact[r].id, newContact[r])
  /\ Send(r, "post", << >>, 201, 201, "Contact successfully added",
          newContact[r])
  /\ fresh' = AddContact(fresh, newContact[r].id, newContact[r])
  /\ UNCHANGED <<allocated, removed>>

\* POST /contacts, addContact and the response
PostAddContact(r) ==
  /\ pc[r] = "post_add"
  /\ store' = AddContact(store, newContact[r].id, newContact[r])
  /\ Send(r, "post", << >>, 201, 201, "Contact successfully added",
          newContact[r])
  /\ fresh' = AddContact(fresh, newContact[r].id, newContact[r])
  /\ UNCHANGED <<nextId, allocated, removed>>

\* PATCH /contacts/:id, getContact and the not-found branch
PatchGetContact(r, k, info) ==
  /\ Free(r)
  /\ LET c == GetContact(store, k)
     IN IF c = Nil
          THEN Send(r, "patch", k, 404, 404, "Contact not found", EmptyObj)
          ELSE /\ pc' = [pc EXCEPT ![r] = "patch_add"]
               /\ params' = [params EXCEPT ![r] = k]
               /\ body' = [body EXCEPT ![r] = info]
               /\ contact' = [contact EXCEPT ![r] = c]
               /\ sent' = NoRes
               /\ UNCHANGED <<ids, newContact>>
  /\ UNCHANGED <<store, nextId, history>>

\* addContact(id, updatedContact): the merged record under the path id
PatchAddContactAtParam(r) ==
  /\ pc[r] = "patch_add"
  /\ LET updatedContact == Spread(contact[r], body[r])
     IN /\ store' = AddContact(store, ParseInt(params[r]), updatedContact)
        /\ Send(r, "patch", params[r], 201, 201, "Contact correctly updated",
                updatedContact)
        /\ fresh' = DelContact(fresh, params[r])
  /\ UNCHANGED <<nextId, allocated, removed>>

\* PATCH /contacts/:id, the merge, addContact and the response
PatchAddContact(r) ==
  /\ pc[r] = "patch_add"
  /\ LET updatedContact == Spread(contact[r], body[r])
     IN /\ store' = AddContact(store, updatedContact.id, updatedContact)
        /\ Send(r, "patch", params[r], 201, 201, "Contact correctly updated",
                updatedContact)
        /\ fresh' = DelContact(fresh, toString(updatedContact.id))
  /\ UNCHANGED <<nextId, allocated, removed>>

\* DELETE /contacts/:id
DeleteById(r, k) ==
  /\ Free(r)
  /\ LET c == GetContact(store, k)
     IN IF c = Nil
          THEN Send(r, "delete", k, 404, 404, "Contact not found", EmptyObj)
          ELSE Send(r, "delete", k, 200, 200, "Contact correctly deleted", c)
  /\ store' = DelContact(store, k)
  /\ fresh' = DelContact(fresh, k)
  /\ removed' = IF k \in DOMAIN store THEN removed \cup {k} ELSE removed
  /\ UNCHANGED <<nextId, allocated>>

Next ==
  \/ \E r \in Reqs : ListGetIds(r)
  \/ \E r \in Reqs : ListFetch(r)
  \/ \E r \in Reqs, k \in ParamIds : GetById(r, k)
  \/ \E r \in Reqs, c \in ContactBodies : PostGetNextId(r, c)
  \/ \E r \in Reqs : PostAddContact(r)
  \/ \E r \in Reqs, k \in ParamIds, info \in InfoBodies : PatchGetContact(r, k, info)
  \/ \E r \in Reqs : PatchAddContact(r)
  \/ \E r \in Reqs, k \in ParamIds : DeleteById(r, k)

Spec == Init /\ [][Next]_vars

SpecRestart == InitRestart /\ [][Next]_vars

\* patches on disjoint data fields, for updates that race on one record
DisjointInfoBodies ==
  { [job |-> "Sith Lord"],
    [first_name |-> "Darth"] }

NextDisjoint ==
  \/ \E r \in Reqs : ListGetIds(r)
  \/ \E r \in Reqs : ListFetch(r)
  \/ \E r \in Reqs, k \in ParamIds : GetById(r, k)
  \/ \E r \in Reqs, c \in ContactBodies : PostGetNextId(r, c)
  \/ \E r \in Reqs : PostAddContact(r)
  \/ \E r \in Reqs, k \in ParamIds, info \in DisjointInfoBodies :
       PatchGetContact(r, k, info)
  \/ \E r \in Reqs : PatchAddContact(r)
  \/ \E r \in Reqs, k \in ParamIds : DeleteById(r, k)

SpecDisjoint == Init /\ [][NextDisjoint]_vars

\* ---------------------------------------------------------- store failures
\* the rejection is caught and the success response is sent all the same
StoreCallFailsSwallowed(r) ==
  /\ pc[r] # "idle" \/ Free(r)
  /\ IF pc[r] = "post_add"
       THEN Send(r, "post", << >>, 201, 201, "Contact successfully added",
                 newContact[r])
       ELSE /\ sent' = [op |-> "none", threw |-> pc[r]]
            /\ pc' = [pc EXCEPT ![r] = "idle"]
            /\ params' = [params EXCEPT ![r] = << >>]
            /\ body' = [body EXCEPT ![r] = EmptyObj]
            /\ ids' = [ids EXCEPT ![r] = << >>]
            /\ contact' = [contact EXCEPT ![r] = Nil]
            /\ newContact' = [newContact EXCEPT ![r] = Nil]
  /\ UNCHANGED <<store, nextId, history>>

\* the store call a handler is awaiting rejects: the await throws, the async
\* handler ends there, nothing is sent and the call has had no effect
StoreCallFails(r) ==
  /\ pc[r] # "idle" \/ Free(r)
  /\ sent' = [op |-> "none", threw |-> pc[r]]
  /\ pc' = [pc EXCEPT ![r] = "idle"]
  /\ params' = [params EXCEPT ![r] = << >>]
  /\ body' = [body EXCEPT ![r] = EmptyObj]
  /\ ids' = [ids EXCEPT ![r] = << >>]
  /\ contact' = [contact EXCEPT ![r] = Nil]
  /\ newContact' = [newContact EXCEPT ![r] = Nil]
  /\ UNCHANGED <<store, nextId, history>>

NextFail ==
  \/ Next
  \/ \E r \in Reqs : StoreCallFails(r)

SpecFail == Init /\ [][NextFail]_vars

\* ------------------------------------------------------------ properties
\* the step in which request r's PATCH writes and answers
PatchWrites(r) == pc[r] = "patch_add" /\ pc'[r] = "idle"
\* the step in which request r's POST writes and answers
PostWrites(r) == pc[r] = "post_add" /\ pc'[r] = "idle"

Distinct(s) == \A i, j \in 1..Len(s) : i # j => s[i] # s[j]

\* C1: the ids the creates obtain are pairwise distinct, also while the
\* creates are between their two awaits, and every record a create has
\* returned is retrievable under its own id with the content returned, as long
\* as no update or delete touched it.
C1_DistinctIdsRetrievable ==
  /\ Distinct(allocated)
  /\ \A r, q \in Reqs :
       (r # q /\ pc[r] = "post_add" /\ pc[q] = "post_add")
         => newContact[r].id # newContact[q].id
  /\ \A k \in DOMAIN fresh :
       /\ k = toString(fresh[k].id)
       /\ GetContact(store, k) = fresh[k]

\* two creates interleaved: the one that allocated later has completed while
\* the one that allocated first is still before its addContact
C1_Witness ==
  \E r \in Reqs : \E k \in DOMAIN fresh :
    /\ pc[r] = "post_add"
    /\ newContact[r].id < fresh[k].id
    /\ GetContact(store, k) = fresh[k]

\* C2: the list response is ordered by ascending numeric id.
C2_ListAscending ==
  sent.op = "list" =>
    \A i \in 1..(Len(sent.data) - 1) :
      (sent.data[i] # Nil /\ sent.data[i + 1] # Nil)
        => sent.data[i].id < sent.data[i + 1].id

\* C3: an update of id N never writes the record back once a delete of N has
\* returned it: when the update's write comes after the delete, key N stays
\* absent.
C3_NoResurrection ==
  [][\A r \in Reqs :
       (PatchWrites(r) /\ params[r] \in removed /\ params[r] \notin DOMAIN store)
         => params[r] \notin DOMAIN store']_vars

\* C4: an update never alters the record's id, writes the merged record under
\* the key it was read from, and writes no other key.
C4_UpdateKeepsIdAndKey ==
  [][\A r \in Reqs :
       PatchWrites(r) =>
         /\ sent'.data.id = contact[r].id
         /\ GetContact(store', params[r]) = sent'.data
         /\ \A k \in (DOMAIN store \cup DOMAIN store') \ {params[r]} :
              GetContact(store', k) = GetContact(store, k)]_vars

\* C5: every stored contact's id field is the key it is stored under.
C5_IdMatchesKey ==
  \A k \in DOMAIN store : toString(store[k].id) = k

\* a patch carrying an id has just been persisted, after some delete
C5_Witness ==
  /\ sent.op = "patch"
  /\ sent.status = 201
  /\ toString(sent.data.id) # sent.id
  /\ toString(sent.data.id) \in DOMAIN store
  /\ removed # {}

\* C6: an update whose record nobody changed since it was read stores and
\* returns a record that has the patch's value in every field of the patch and
\* the prior value in every other field; with the empty patch the store is
\* unchanged and the unchanged record is returned.
C6_UpdateMerges ==
  [][\A r \in Reqs :
       (PatchWrites(r) /\ GetContact(store, params[r]) = contact[r]) =>
         LET info == body[r]
             prior == contact[r]
             data == sent'.data
         IN /\ sent'.op = "patch" /\ sent'.status = 201
            /\ DOMAIN data = DOMAIN prior \cup DOMAIN info
            /\ \A f \in DOMAIN info : data[f] = info[f]
            /\ \A f \in DOMAIN prior \ DOMAIN info : data[f] = prior[f]
            /\ GetContact(store', toString(data.id)) = data
            /\ (DOMAIN info = {} => store' = store /\ data = prior)]_vars

\* an update has overwritten job and kept first_name
C6_Witness ==
  /\ sent.op = "patch"
  /\ sent.status = 201
  /\ sent.data.job = "Sith Lord"
  /\ sent.data.first_name = "Boba"
  /\ GetContact(store, sent.id) = sent.data

NeverAllocated(k) == ParseInt(k) > nextId

\* C7: get, update and delete on an id that was never allocated answer
\* NotFound and leave the records and the counter unchanged.
C7_NeverAllocatedNotFound ==
  [][/\ (sent'.op \in {"get", "patch", "delete"} /\ NeverAllocated(sent'.id))
          => /\ sent'.status = 404
             /\ store' = store
             /\ nextId' = nextId
     /\ \A r \in Reqs :
          (pc[r] = "idle" /\ pc'[r] = "patch_add")
             => ~NeverAllocated(params'[r])]_vars

\* C8: no id is allocated twice, and a key that a delete has removed never
\* holds a record again.
C8_IdsNeverReused ==
  /\ Distinct(allocated)
  /\ \A k \in removed : k \notin DOMAIN store

C10_DeleteThenNotFound ==
  [][/\ (sent'.op = "delete" /\ sent'.status = 200)
          => /\ sent'.id \notin DOMAIN store'
             /\ sent'.data = GetContact(store, sent'.id)
     /\ (sent'.op \in {"get", "delete"} /\ sent'.id \in removed)
          => sent'.status = 404]_vars

C12_ListHasNoNull ==
  sent.op = "list" => \A i \in DOMAIN sent.data : sent.data[i] # Nil

\* C13: when updates of one existing id with patches on disjoint fields run
\* concurrently, an update's write changes no field outside its own patch, so
\* the field the other update has written is not reverted.
C13_NoLostUpdate ==
  [][\A r \in Reqs :
       (PatchWrites(r) /\ params[r] \in DOMAIN store) =>
         \A f \in DOMAIN store[params[r]] \ DOMAIN body[r] :
           /\ f \in DOMAIN GetContact(store', params[r])
           /\ store'[params[r]][f] = store[params[r]][f]]_vars

C15_FailureNotSwallowed ==
  [][\A r \in Reqs :
       (pc[r] # "idle" /\ pc'[r] = "idle") =>
         \/ /\ pc[r] = "post_add"
            /\ sent'.op = "post" /\ sent'.status = 201
            /\ GetContact(store', toString(newContact[r].id)) = newContact[r]
         \/ /\ pc[r] = "patch_add"
            /\ sent'.op = "patch" /\ sent'.status = 201
            /\ GetContact(store', toString(sent'.data.id)) = sent'.data
         \/ /\ pc[r] = "list_fetch"
            /\ sent'.op = "list" /\ sent'.status = 200
            /\ store' = store
         \/ /\ sent'.op = "none"
            /\ store' = store
            /\ nextId' = nextId
            /\ contact'[r] = Nil /\ newContact'[r] = Nil /\ ids'[r] = << >>]_vars

\* a create's addContact has failed after its id was allocated: nothing was
\* sent and no record is stored under that id
C15_Witness ==
  /\ sent.op = "none"
  /\ "threw" \in DOMAIN sent
  /\ sent.threw = "post_add"
  /\ \E i \in 1..Len(allocated) :
       /\ toString(allocated[i]) \notin DOMAIN store
       /\ toString(allocated[i]) \notin removed
       /\ \A r \in Reqs : pc[r] # "post_add"

====
